---- MODULE Spec2Model ----
(***************************************************************************)
(* The RV32I instruction decoder of src/src/lib.rs together with the       *)
(* register table of src/src/registers.rs.                                 *)
(*                                                                         *)
(* A u32 is modelled as the set of its set bit positions (a subset of      *)
(* 0..31): & is intersection, | is union, shifts move positions and    *)
(* drop what leaves the 32-bit width, and an as uN cast keeps positions  *)
(* below N.  Numbers are recovered with ToNat / ToSigned.                  *)
(***************************************************************************)
EXTENDS Integers, Sequences, FiniteSets, TLC

VARIABLES word, pc, result, byte, bit_array, idx, ret

\* the state of a call of parse_32bit_operation
vars_parse == <<word, pc, result>>

\* the state of a call into registers.rs: the u8 given to try_from, and the
\* argument, loop counter and vector of register_list_from_bit_array
vars_registers == <<byte, bit_array, idx, ret>>

vars == <<word, pc, result, byte, bit_array, idx, ret>>

(***************************************************************************)
(* Bounds of the model.                                                    *)
(***************************************************************************)
\* Each input word differs from a seed word in at most MaxFlips of its
\* upper 25 bits (bits 31:7); the opcode bits 6:0 take all 128 values.
MaxFlips == 2

\* Each mask given to register_list_from_bit_array differs from a seed mask
\* in at most MaxMaskFlips of its 32 bits.
MaxMaskFlips == 1

(***************************************************************************)
(* 32-bit machine arithmetic on bit sets.                                  *)
(***************************************************************************)
\* The unsigned number a bit set with positions below 31 stands for.
RECURSIVE ToNat(_)
ToNat(s) ==
    IF s = {} THEN 0
    ELSE LET i == CHOOSE j \in s : TRUE IN 2^(i) + ToNat(s \ {i})

\* The bit set of a number 0 .. 2^31 - 1 (a literal of the source).
FromNat(n) == {i \in 0..30 : (n \div 2^(i)) % 2 = 1}

\* The two's-complement number a bit set of width bits stands for.
ToSigned(s, width) ==
    LET low == ToNat(s \cap (0..(width - 2)))
    IN  IF (width - 1) \in s
        THEN (low - 2^(width - 2)) - 2^(width - 2)
        ELSE low

\* (0b1..1 << lo) with n ones
Mask(n, lo) == lo..(lo + n - 1)

BitAnd(a, b) == a \cap b

BitOr(a, b) == a \cup b

\* u32 >> k (logical)
Shr(a, k) == {i - k : i \in {j \in a : j >= k}}

\* u32 << k (bits shifted past bit 31 are lost)
Shl(a, k) == {i + k : i \in {j \in a : j + k <= 31}}

\* i32 >> k (arithmetic: the sign bit fills the vacated positions)
Sar(a, k) == Shr(a, k) \cup (IF 31 \in a THEN (31 - k)..31 ELSE {})

AsU8(a) == a \cap (0..7)

AsU16(a) == a \cap (0..15)

\* bitutils::sign_extend32(data, size): ((data << (32 - size)) as i32) >> (32 - size)
sign_extend32(data, size) == Sar(Shl(data, 32 - size), 32 - size)

\* {:b} of an unsigned value: its binary digits, most significant first,
\* without leading zeros ("0" for zero).
Binary(a) ==
    IF a = {} THEN <<0>>
    ELSE LET top == CHOOSE i \in a : \A j \in a : j <= i
         IN  [k \in 1..(top + 1) |-> IF (top + 1 - k) \in a THEN 1 ELSE 0]

\* format!(text {:b}, value)
Format(text, a) == [text |-> text, digits |-> Binary(a)]

(***************************************************************************)
(* Results: Ok(v), Err(message), or an abort of the process (panic).       *)
(***************************************************************************)
Ok(v) == [tag |-> "Ok", val |-> v]

Err(m) == [tag |-> "Err", msg |-> m]

Panic(m) == [tag |-> "Panic", msg |-> m]

(***************************************************************************)
(* registers.rs                                                            *)
(***************************************************************************)
Register ==
    <<"ZERO", "RA", "SP", "GP", "TP", "T0", "T1", "T2", "S0", "S1", "A0",
      "A1", "A2", "A3", "A4", "A5", "A6", "A7", "S2", "S3", "S4", "S5",
      "S6", "S7", "S8", "S9", "S10", "S11", "T3", "T4", "T5", "T6">>

\* The discriminants of enum Register (repr(u8)).
Discriminant ==
    [ZERO |-> 0, RA |-> 1, SP |-> 2, GP |-> 3, TP |-> 4, T0 |-> 5, T1 |-> 6,
     T2 |-> 7, S0 |-> 8, S1 |-> 9, A0 |-> 10, A1 |-> 11, A2 |-> 12, A3 |-> 13,
     A4 |-> 14, A5 |-> 15, A6 |-> 16, A7 |-> 17, S2 |-> 18, S3 |-> 19,
     S4 |-> 20, S5 |-> 21, S6 |-> 22, S7 |-> 23, S8 |-> 24, S9 |-> 25,
     S10 |-> 26, S11 |-> 27, T3 |-> 28, T4 |-> 29, T5 |-> 30, T6 |-> 31]

\* register as u8
to_index(register) == Discriminant[register]

\* try_from with the arms for 16 and 17 exchanged.
try_from_swapped(value) ==
    IF value \in 0..31
    THEN Ok(Register[IF value = 16 THEN 18 ELSE IF value = 17 THEN 17 ELSE value + 1])
    ELSE Err([text |-> "Invalid register", digits |-> <<>>])

\* impl TryFrom<u8> for Register (value is the number the u8 holds)
try_from(value) ==
    IF value \in 0..31
    THEN Ok(Register[value + 1])
    ELSE Err([text |-> "Invalid register", digits |-> <<>>])

\* ((instruction & (0b11111 << lo)) >> lo) as u8).try_into()
RegField(instruction, lo) ==
    try_from(ToNat(AsU8(Shr(BitAnd(instruction, Mask(5, lo)), lo))))

(***************************************************************************)
(* lib.rs: the fields parse_32bit_operation extracts from the word.        *)
(***************************************************************************)
\* The opcode taken with an eight-bit mask (0b11111111).
opcode_wide(instruction) == BitAnd(instruction, Mask(8, 0))

\* instruction & 0b1111111
opcode(instruction) == BitAnd(instruction, Mask(7, 0))

\* (instruction & (0b111 << 12)) >> 12
funct3(instruction) == Shr(BitAnd(instruction, Mask(3, 12)), 12)

\* funct7 taken with a six-bit mask (0b111111 << 25), losing bit 31.
funct7_6bits(instruction) == Shr(BitAnd(instruction, Mask(6, 25)), 25)

\* (instruction & (0b1111111 << 25)) >> 25
funct7(instruction) == Shr(BitAnd(instruction, Mask(7, 25)), 25)

\* The I-type immediate without its sign extension.
imm_unextended(instruction) == Shr(instruction, 20)

\* sign_extend32(instruction >> 20, 12)
imm(instruction) == sign_extend32(Shr(instruction, 20), 12)

\* (instruction & (0b11111 << 20)) >> 20
shamt(instruction) == Shr(BitAnd(instruction, Mask(5, 20)), 20)

\* instruction & 0xFFFFF000
imm_big(instruction) == BitAnd(instruction, Mask(20, 12))

\* The J-type immediate sign-extended from 20 bits instead of 21.
imm_big_shuffled_20(instruction) ==
    sign_extend32(
        BitAnd(
            BitOr(BitOr(BitOr(Shr(BitAnd(instruction, Mask(1, 31)), 31 - 20),
                              Shr(BitAnd(instruction, Mask(10, 21)), 30 - 10)),
                        Shr(BitAnd(instruction, Mask(1, 20)), 20 - 11)),
                  BitAnd(instruction, Mask(8, 12))),
            Mask(31, 1)),
        20)

imm_big_shuffled(instruction) ==
    sign_extend32(
        BitAnd(
            BitOr(BitOr(BitOr(Shr(BitAnd(instruction, Mask(1, 31)), 31 - 20),
                              Shr(BitAnd(instruction, Mask(10, 21)), 30 - 10)),
                        Shr(BitAnd(instruction, Mask(1, 20)), 20 - 11)),
                  BitAnd(instruction, Mask(8, 12))),
            Mask(31, 1)),
        21)

imm_store(instruction) ==
    BitOr(Shr(BitAnd(instruction, Mask(5, 7)), 7),
          Shr(BitAnd(instruction, Mask(7, 25)), 20))

\* The B-type immediate with bit 7 moved to position 10 instead of 11.
imm_branch_bit7(instruction) ==
    sign_extend32(
        BitOr(BitOr(BitOr(Shr(BitAnd(instruction, Mask(1, 31)), 19),
                          Shr(BitAnd(instruction, Mask(6, 25)), 20)),
                    Shr(BitAnd(instruction, Mask(4, 8)), 7)),
              Shl(BitAnd(instruction, Mask(1, 7)), 3)),
        13)

\* the immediate of the BRANCH arm
imm_branch(instruction) ==
    sign_extend32(
        BitOr(BitOr(BitOr(Shr(BitAnd(instruction, Mask(1, 31)), 19),
                          Shr(BitAnd(instruction, Mask(6, 25)), 20)),
                    Shr(BitAnd(instruction, Mask(4, 8)), 7)),
              Shl(BitAnd(instruction, Mask(1, 7)), 4)),
        13)

\* instruction == 807403635 (mret, "basically magic number")
MRET_WORD == 807403635

\* The MRET test on the opcode and bits 31:20 only.
IsMret_masked(instruction) ==
    BitAnd(instruction, Mask(7, 0) \cup Mask(12, 20)) = FromNat(MRET_WORD)

IsMret(instruction) == instruction = FromNat(MRET_WORD)

(***************************************************************************)
(* lib.rs: the arms of match opcode.  A ? returns the register error,  *)
(* an .unwrap() panics on it.                                            *)
(***************************************************************************)
InvalidFunct7(instruction) == Err(Format("Invalid funct7 ", funct7(instruction)))

InvalidFunct3(instruction) == Err(Format("Invalid funct3 ", funct3(instruction)))

UnsupportedFunct3(instruction) ==
    Panic(Format("Unsupported funct3 ", funct3(instruction)))

UnwrapFailed(e) ==
    Panic([text |-> "called Result::unwrap() on an Err value", digits |-> e.msg.digits])

R3(name, rs1, rs2, rd) == Ok([op |-> name, rs1 |-> rs1, rs2 |-> rs2, rd |-> rd])

ArmOP(instruction) ==
    LET rd  == RegField(instruction, 7)
        rs1 == RegField(instruction, 15)
        rs2 == RegField(instruction, 20)
        f3  == ToNat(funct3(instruction))
        f7  == ToNat(funct7(instruction))
    IN  IF rd.tag = "Err" THEN Err(rd.msg)
        ELSE IF rs1.tag = "Err" THEN Err(rs1.msg)
        ELSE IF rs2.tag = "Err" THEN Err(rs2.msg)
        ELSE CASE f3 = \b000 ->
                    (CASE f7 = \b0000000 -> R3("ADD", rs1.val, rs2.val, rd.val)
                       [] f7 = \b0100000 -> R3("SUB", rs1.val, rs2.val, rd.val)
                       [] OTHER -> InvalidFunct7(instruction))
               [] f3 = \b001 ->
                    (CASE f7 = \b0000000 -> R3("SLL", rs1.val, rs2.val, rd.val)
                       [] OTHER -> InvalidFunct7(instruction))
               [] f3 = \b010 ->
                    (CASE f7 = \b0000000 -> R3("SLT", rs1.val, rs2.val, rd.val)
                       [] OTHER -> InvalidFunct7(instruction))
               [] f3 = \b011 ->
                    (CASE f7 = \b0000000 -> R3("SLTU", rs1.val, rs2.val, rd.val)
                       [] OTHER -> InvalidFunct7(instruction))
               [] f3 = \b100 ->
                    (CASE f7 = \b0000000 -> R3("XOR", rs1.val, rs2.val, rd.val)
                       [] OTHER -> InvalidFunct7(instruction))
               [] f3 = \b101 ->
                    (CASE f7 = \b0000000 -> R3("SRL", rs1.val, rs2.val, rd.val)
                       [] f7 = \b0100000 -> R3("SRA", rs1.val, rs2.val, rd.val)
                       [] OTHER -> InvalidFunct7(instruction))
               [] f3 = \b110 ->
                    (CASE f7 = \b0000000 -> R3("OR", rs1.val, rs2.val, rd.val)
                       [] OTHER -> InvalidFunct7(instruction))
               [] f3 = \b111 ->
                    (CASE f7 = \b0000000 -> R3("AND", rs1.val, rs2.val, rd.val)
                       [] OTHER -> InvalidFunct7(instruction))
               [] OTHER -> InvalidFunct3(instruction)

I2(name, i, rs1, rd) == Ok([op |-> name, imm |-> i, rs1 |-> rs1, rd |-> rd])

Sh2(name, s, rs1, rd) == Ok([op |-> name, shamt |-> s, rs1 |-> rs1, rd |-> rd])

ArmOP_IMM(instruction) ==
    LET rd  == RegField(instruction, 7)
        rs1 == RegField(instruction, 15)
        f3  == ToNat(funct3(instruction))
        f7  == ToNat(funct7(instruction))
    IN  IF rd.tag = "Err" THEN Err(rd.msg)
        ELSE IF rs1.tag = "Err" THEN Err(rs1.msg)
        ELSE CASE f3 = \b000 -> I2("ADDI", imm(instruction), rs1.val, rd.val)
               [] f3 = \b010 -> I2("SLTI", AsU16(imm(instruction)), rs1.val, rd.val)
               [] f3 = \b011 -> I2("SLTIU", AsU16(imm(instruction)), rs1.val, rd.val)
               [] f3 = \b100 -> I2("XORI", AsU16(imm(instruction)), rs1.val, rd.val)
               [] f3 = \b110 -> I2("ORI", AsU16(imm(instruction)), rs1.val, rd.val)
               [] f3 = \b111 -> I2("ANDI", AsU16(imm(instruction)), rs1.val, rd.val)
               [] f3 = \b001 -> Sh2("SLLI", AsU8(shamt(instruction)), rs1.val, rd.val)
               [] f3 = \b101 ->
                    (CASE f7 = \b0000000 ->
                              Sh2("SRLI", AsU8(shamt(instruction)), rs1.val, rd.val)
                       [] f7 = \b0100000 ->
                              Sh2("SRAI", AsU8(shamt(instruction)), rs1.val, rd.val)
                       [] OTHER -> InvalidFunct7(instruction))
               [] OTHER -> InvalidFunct3(instruction)

ArmLUI(instruction) ==
    LET rd == RegField(instruction, 7)
    IN  IF rd.tag = "Err" THEN Err(rd.msg)
        ELSE Ok([op |-> "LUI", rd |-> rd.val, imm |-> imm_big(instruction)])

ArmAUIPC(instruction) ==
    LET rd == RegField(instruction, 7)
    IN  IF rd.tag = "Err" THEN Err(rd.msg)
        ELSE Ok([op |-> "AUIPC", rd |-> rd.val, imm |-> imm_big(instruction)])

ArmJAL(instruction) ==
    LET rd == RegField(instruction, 7)
    IN  IF rd.tag = "Err" THEN Err(rd.msg)
        ELSE Ok([op |-> "JAL", rd |-> rd.val, imm |-> imm_big_shuffled(instruction)])

ArmJALR(instruction) ==
    LET rd  == RegField(instruction, 7)
        rs1 == RegField(instruction, 15)
    IN  IF rd.tag = "Err" THEN Err(rd.msg)
        ELSE IF rs1.tag = "Err" THEN Err(rs1.msg)
        ELSE Ok([op |-> "JALR", rd |-> rd.val, rs1 |-> rs1.val,
                 imm |-> imm(instruction)])

B2(name, i, rs1, rs2) == Ok([op |-> name, imm |-> i, rs1 |-> rs1, rs2 |-> rs2])

\* The BRANCH arm with funct3 = 010 and 011 rejected.
ArmBRANCH_strict(instruction) ==
    LET rd  == RegField(instruction, 7)
        rs1 == RegField(instruction, 15)
        rs2 == RegField(instruction, 20)
        bi  == imm_branch(instruction)
        f3  == ToNat(funct3(instruction))
    IN  IF rd.tag = "Err" THEN UnwrapFailed(rd)
        ELSE IF rs1.tag = "Err" THEN UnwrapFailed(rs1)
        ELSE IF rs2.tag = "Err" THEN UnwrapFailed(rs2)
        ELSE CASE f3 = \b000 -> B2("BEQ", bi, rs1.val, rs2.val)
               [] f3 = \b001 -> B2("BNE", bi, rs1.val, rs2.val)
               [] f3 = \b100 -> B2("BLT", bi, rs1.val, rs2.val)
               [] f3 = \b101 -> B2("BGE", bi, rs1.val, rs2.val)
               [] f3 = \b110 -> B2("BLTU", bi, rs1.val, rs2.val)
               [] f3 = \b111 -> B2("BGEU", bi, rs1.val, rs2.val)
               [] f3 = \b011 -> InvalidFunct3(instruction)
               [] f3 = \b010 -> InvalidFunct3(instruction)
               [] OTHER ->
                    Panic([text |-> "internal error: entered unreachable code",
                           digits |-> <<>>])

ArmBRANCH(instruction) ==
    LET rd  == RegField(instruction, 7)
        rs1 == RegField(instruction, 15)
        rs2 == RegField(instruction, 20)
        bi  == imm_branch(instruction)
        f3  == ToNat(funct3(instruction))
    IN  IF rd.tag = "Err" THEN UnwrapFailed(rd)
        ELSE IF rs1.tag = "Err" THEN UnwrapFailed(rs1)
        ELSE IF rs2.tag = "Err" THEN UnwrapFailed(rs2)
        ELSE CASE f3 = \b000 -> B2("BEQ", bi, rs1.val, rs2.val)
               [] f3 = \b001 -> B2("BNE", bi, rs1.val, rs2.val)
               [] f3 = \b100 -> B2("BLT", bi, rs1.val, rs2.val)
               [] f3 = \b101 -> B2("BGE", bi, rs1.val, rs2.val)
               [] f3 = \b110 -> B2("BLTU", bi, rs1.val, rs2.val)
               [] f3 = \b111 -> B2("BGEU", bi, rs1.val, rs2.val)
               [] f3 = \b011 ->
                    Ok([op |-> "JALR", rd |-> rd.val, rs1 |-> rs1.val, imm |-> bi])
               [] f3 = \b010 -> Ok([op |-> "JAL", rd |-> rd.val, imm |-> bi])
               [] OTHER ->
                    Panic([text |-> "internal error: entered unreachable code",
                           digits |-> <<>>])

ArmLOAD(instruction) ==
    LET i   == AsU16(imm(instruction))
        rd  == RegField(instruction, 7)
        rs1 == RegField(instruction, 15)
        f3  == ToNat(funct3(instruction))
    IN  IF rd.tag = "Err" THEN UnwrapFailed(rd)
        ELSE IF rs1.tag = "Err" THEN UnwrapFailed(rs1)
        ELSE CASE f3 = \b000 -> I2("LB", i, rs1.val, rd.val)
               [] f3 = \b001 -> I2("LH", i, rs1.val, rd.val)
               [] f3 = \b010 -> I2("LW", i, rs1.val, rd.val)
               [] f3 = \b100 -> I2("LBU", i, rs1.val, rd.val)
               [] f3 = \b101 -> I2("LHU", i, rs1.val, rd.val)
               [] OTHER -> UnsupportedFunct3(instruction)

S2(name, i, rs2, rs1) == Ok([op |-> name, imm |-> i, rs2 |-> rs2, rs1 |-> rs1])

ArmSTORE(instruction) ==
    LET rs1 == RegField(instruction, 15)
        rs2 == RegField(instruction, 20)
        i   == AsU16(imm_store(instruction))
        f3  == ToNat(funct3(instruction))
    IN  IF rs1.tag = "Err" THEN UnwrapFailed(rs1)
        ELSE IF rs2.tag = "Err" THEN UnwrapFailed(rs2)
        ELSE CASE f3 = \b000 -> S2("SB", i, rs2.val, rs1.val)
               [] f3 = \b001 -> S2("SH", i, rs2.val, rs1.val)
               [] f3 = \b010 -> S2("SW", i, rs2.val, rs1.val)
               [] OTHER -> UnsupportedFunct3(instruction)

Csr2(name, csr, rs1, rd) == Ok([op |-> name, csr |-> csr, rs1 |-> rs1, rd |-> rd])

CsrI2(name, csr, zimm, rd) == Ok([op |-> name, csr |-> csr, zimm |-> zimm, rd |-> rd])

\* (instruction & (0b11111 << 15)) >> 15, then as u8
zimm(instruction) == AsU8(Shr(BitAnd(instruction, Mask(5, 15)), 15))

ArmSYSTEM(instruction) ==
    LET rd  == RegField(instruction, 7)
        rs1 == RegField(instruction, 15)
        csr == AsU16(imm(instruction))
        f3  == ToNat(funct3(instruction))
    IN  IF rd.tag = "Err" THEN Err(rd.msg)
        ELSE IF rs1.tag = "Err" THEN Err(rs1.msg)
        ELSE IF IsMret(instruction) THEN Ok([op |-> "MRET"])
        ELSE CASE f3 = \b001 -> Csr2("CSRRW", csr, rs1.val, rd.val)
               [] f3 = \b010 -> Csr2("CSRRS", csr, rs1.val, rd.val)
               [] f3 = \b011 -> Csr2("CSRRC", csr, rs1.val, rd.val)
               [] f3 = \b101 -> CsrI2("CSRRWI", csr, zimm(instruction), rd.val)
               [] f3 = \b110 -> CsrI2("CSRRSI", csr, zimm(instruction), rd.val)
               [] f3 = \b111 -> CsrI2("CSRRCI", csr, zimm(instruction), rd.val)
               [] OTHER -> UnsupportedFunct3(instruction)

\* the default arm of match opcode
ArmInvalidOpcode(instruction) == Err(Format("Invalid opcode! ", opcode(instruction)))

\* The opcode values match opcode has an arm for.
OP      == \b0110011
OP_IMM  == \b0010011
LUI     == \b0110111
AUIPC   == \b0010111
JAL     == \b1101111
JALR    == \b1100111
BRANCH  == \b1100011
LOAD    == \b0000011
STORE   == \b0100011
SYSTEM  == \b1110011

parse_32bit_operation(instruction) ==
    LET oc == ToNat(opcode(instruction))
    IN  CASE oc = OP     -> ArmOP(instruction)
          [] oc = OP_IMM -> ArmOP_IMM(instruction)
          [] oc = LUI    -> ArmLUI(instruction)
          [] oc = AUIPC  -> ArmAUIPC(instruction)
          [] oc = JAL    -> ArmJAL(instruction)
          [] oc = JALR   -> ArmJALR(instruction)
          [] oc = BRANCH -> ArmBRANCH(instruction)
          [] oc = LOAD   -> ArmLOAD(instruction)
          [] oc = STORE  -> ArmSTORE(instruction)
          [] oc = SYSTEM -> ArmSYSTEM(instruction)
          [] OTHER       -> ArmInvalidOpcode(instruction)

(***************************************************************************)
(* The words the model decodes.                                            *)
(***************************************************************************)
\* Bits 31:7 of the seed words: 0x00000000, 0xFFFFFFFF, MRET 0x30200073,
\* EBREAK 0x00100073, csrrs a0, mhartid, zero 0xF1402573, and the I-type
\* immediates 0x7FF and 0xFFF, and sra / srai 0x40005033.
Seeds ==
    { {},
      7..31,
      {29, 28, 21},
      {20},
      {31, 30, 29, 28, 24, 22, 13, 10, 8},
      20..30,
      20..31,
      {30, 14, 12} }

\* The sets of at most n of the bit positions 31:7.
RECURSIVE FlipSets(_)
FlipSets(n) ==
    IF n = 0 THEN {{}}
    ELSE LET less == FlipSets(n - 1)
         IN  less \cup {f \cup {i} : f \in less, i \in 7..31}

Flips == FlipSets(MaxFlips)

HandledOpcodes == {OP, OP_IMM, LUI, AUIPC, JAL, JALR, BRANCH, LOAD, STORE, SYSTEM}

\* A word: every opcode value with the upper bits of every seed, or a
\* handled opcode with the upper bits of a seed after at most MaxFlips flips.
IsInput(w) ==
    \/ \E oc \in SUBSET (0..6), seed \in Seeds : w = oc \cup seed
    \/ \E oc \in HandledOpcodes, seed \in Seeds, f \in Flips :
           w = FromNat(oc) \cup ((seed \ f) \cup (f \ seed))

(***************************************************************************)
(* The state machine: one call of parse_32bit_operation on a word.         *)
(***************************************************************************)
NoResult == [tag |-> "None"]

\* No call into registers.rs is under way.
RegistersIdle ==
    /\ byte = 0
    /\ bit_array = {}
    /\ idx = 0
    /\ ret = <<>>

Init ==
    /\ IsInput(word)
    /\ pc = "ready"
    /\ result = NoResult
    /\ RegistersIdle

\* The call runs to its return, or to the panic that aborts it.
Finish ==
    LET r == parse_32bit_operation(word)
    IN  /\ result' = r
        /\ pc' = IF r.tag = "Panic" THEN "aborted" ELSE "returned"
        /\ UNCHANGED <<word, vars_registers>>

Dispatch(oc) == pc = "ready" /\ ToNat(opcode(word)) = oc

ParseOP == Dispatch(OP) /\ Finish

ParseOP_IMM == Dispatch(OP_IMM) /\ Finish

ParseLUI == Dispatch(LUI) /\ Finish

ParseAUIPC == Dispatch(AUIPC) /\ Finish

ParseJAL == Dispatch(JAL) /\ Finish

ParseJALR == Dispatch(JALR) /\ Finish

ParseBRANCH == Dispatch(BRANCH) /\ Finish

ParseLOAD == Dispatch(LOAD) /\ Finish

ParseSTORE == Dispatch(STORE) /\ Finish

ParseSYSTEM == Dispatch(SYSTEM) /\ Finish

ParseInvalidOpcode ==
    /\ pc = "ready"
    /\ ToNat(opcode(word)) \notin HandledOpcodes
    /\ Finish

Next ==
    \/ ParseOP
    \/ ParseOP_IMM
    \/ ParseLUI
    \/ ParseAUIPC
    \/ ParseJAL
    \/ ParseJALR
    \/ ParseBRANCH
    \/ ParseLOAD
    \/ ParseSTORE
    \/ ParseSYSTEM
    \/ ParseInvalidOpcode

Spec == Init /\ [][Next]_vars


(***************************************************************************)
(* registers.rs: one call of Register::try_from on a byte, or one call of  *)
(* register_list_from_bit_array on a mask.                                 *)
(***************************************************************************)
\* The masks of the tests of registers.rs (0, 0b1, 0b111, 0x8000, 0xE000,
\* 0xffff) and the all-ones mask.
MaskSeeds == { {}, {0}, {0, 1, 2}, {15}, {13, 14, 15}, 0..15, 0..31 }

\* The sets of at most n of the bit positions 31:0.
RECURSIVE MaskFlipSets(_)
MaskFlipSets(n) ==
    IF n = 0 THEN {{}}
    ELSE LET less == MaskFlipSets(n - 1)
         IN  less \cup {f \cup {k} : f \in less, k \in 0..31}

MaskFlips == MaskFlipSets(MaxMaskFlips)

IsMask(b) ==
    \E seed \in MaskSeeds, f \in MaskFlips : b = (seed \ f) \cup (f \ seed)

InitRegisters ==
    /\ word = {}
    /\ result = NoResult
    /\ idx = 0
    /\ ret = <<>>
    /\ \/ pc = "try_from" /\ byte \in 0..255 /\ bit_array = {}
       \/ pc = "loop" /\ byte = 0 /\ IsMask(bit_array)

\* Register::try_from(byte)
TryFrom ==
    /\ pc = "try_from"
    /\ result' = try_from(byte)
    /\ pc' = "try_from_done"
    /\ UNCHANGED <<word, vars_registers>>

\* The bit test with the shift one too far.
TestBit_next(b, k) == BitAnd(Shr(b, k + 1), {0}) = {0}

\* (bit_array >> i) & 0b1 == 0b1
TestBit(b, k) == BitAnd(Shr(b, k), {0}) = {0}

\* An iteration of for i in 0u8..32u8 whose bit is clear.
ListSkip ==
    /\ pc = "loop"
    /\ idx < 32
    /\ ~TestBit(bit_array, idx)
    /\ idx' = idx + 1
    /\ UNCHANGED <<word, pc, result, byte, bit_array, ret>>

\* An iteration whose bit is set: ret.push(i.try_into().unwrap())
ListPush ==
    /\ pc = "loop"
    /\ idx < 32
    /\ TestBit(bit_array, idx)
    /\ LET r == try_from(idx)
       IN  IF r.tag = "Ok"
           THEN /\ ret' = Append(ret, r.val)
                /\ idx' = idx + 1
                /\ UNCHANGED <<pc, result>>
           ELSE /\ pc' = "aborted"
                /\ result' = UnwrapFailed(r)
                /\ UNCHANGED <<idx, ret>>
    /\ UNCHANGED <<word, byte, bit_array>>

\* The loop is over: ret is returned.
ListReturn ==
    /\ pc = "loop"
    /\ idx = 32
    /\ pc' = "list_done"
    /\ UNCHANGED <<word, result, vars_registers>>

NextRegisters ==
    \/ TryFrom
    \/ ListSkip
    \/ ListPush
    \/ ListReturn

SpecRegisters == InitRegisters /\ [][NextRegisters]_vars

(***************************************************************************)
(* What the claims are stated with: the fields of the word read as         *)
(* numbers, straight from the bit positions the instruction formats name.  *)
(***************************************************************************)
\* bits hi:lo of w as an unsigned number
Field(w, hi, lo) == ToNat({i - lo : i \in w \cap (lo..hi)})

BitAt(w, i) == IF i \in w THEN 1 ELSE 0

\* the n-bit two's-complement reading of the unsigned number u < 2^n
SignedOf(u, n) == IF u >= 2^(n - 1) THEN u - 2^n ELSE u

\* the number a sequence of binary digits, most significant first, denotes
RECURSIVE DigitsValue(_)
DigitsValue(d) ==
    IF d = <<>> THEN 0 ELSE 2 * DigitsValue(SubSeq(d, 1, Len(d) - 1)) + d[Len(d)]

Called == pc # "ready"

Returned(name) == pc = "returned" /\ result.tag = "Ok" /\ result.val.op = name

IsErr(text) == pc = "returned" /\ result.tag = "Err" /\ result.msg.text = text

\* C1: decoding any word ends with an Operation or a returned error; no
\* word makes the decoder abort.
C1_NoAbort == pc # "aborted"

\* C2: a LOAD, STORE or SYSTEM (other than MRET) word whose funct3 maps to
\* no instruction of its class returns the invalid-funct3 error naming the
\* funct3 value.
C2_InvalidFunct3Returned ==
    LET oc == Field(word, 6, 0)
        f3 == Field(word, 14, 12)
        unmapped ==
            \/ oc = 3 /\ f3 \in {3, 6, 7}
            \/ oc = 35 /\ f3 \in {3, 4, 5, 6, 7}
            \/ oc = 115 /\ f3 \in {0, 4} /\ word # FromNat(MRET_WORD)
    IN  (Called /\ unmapped) =>
            /\ IsErr("Invalid funct3 ")
            /\ DigitsValue(result.msg.digits) = f3

\* C3: the unrecognized-opcode error, carrying the value of bits 6:0, is
\* returned exactly when bits 6:0 are none of the opcode values with a
\* handler, whatever the upper 25 bits are.
C3_UnrecognizedOpcode ==
    LET oc == Field(word, 6, 0)
        handled == oc \in {51, 19, 55, 23, 111, 103, 99, 3, 35, 115}
    IN  Called =>
            /\ IsErr("Invalid opcode! ") <=> ~handled
            /\ ~handled => DigitsValue(result.msg.digits) = oc
            /\ oc = 127 =>
                   result = Err([text |-> "Invalid opcode! ",
                                 digits |-> <<1, 1, 1, 1, 1, 1, 1>>])

\* C3 witness: an unhandled opcode under non-zero upper bits was rejected
\* with its own value.
C3_Witness ==
    /\ IsErr("Invalid opcode! ")
    /\ Field(word, 6, 0) = 127
    /\ 31 \in word
    /\ DigitsValue(result.msg.digits) = 127

\* C4: the word 0x00100073 decodes to the zero-operand EBREAK operation.
C4_Ebreak ==
    (Called /\ word = FromNat(1048691)) => result = Ok([op |-> "EBREAK"])

CsrOps == {"CSRRW", "CSRRS", "CSRRC", "CSRRWI", "CSRRSI", "CSRRCI"}

\* C5: the csr field of every decoded CSR operation is the unsigned value
\* of bits 31:20 of the word, so it lies in 0..4095.
C5_CsrUnsigned ==
    (pc = "returned" /\ Field(word, 6, 0) = 115 /\ result.tag = "Ok"
        /\ result.val.op \in CsrOps) =>
            /\ ToNat(result.val.csr) = Field(word, 31, 20)
            /\ ToNat(result.val.csr) \in 0..4095

StoreName(f3) == CASE f3 = 0 -> "SB" [] f3 = 1 -> "SH" [] f3 = 2 -> "SW"

\* C6: a STORE word with funct3 in {000, 001, 010} decodes to SB/SH/SW with
\* rs1 = bits 19:15, rs2 = bits 24:20 and the immediate concat(bits 31:25,
\* bits 11:7) sign-extended from 12 bits: the bits of the stored immediate
\* above bit 11 all equal bit 31 of the word.
C6_StoreImmSignExtended ==
    LET f3 == Field(word, 14, 12)
    IN  (Called /\ Field(word, 6, 0) = 35 /\ f3 \in {0, 1, 2}) =>
            /\ Returned(StoreName(f3))
            /\ result.val.rs1 = Register[Field(word, 19, 15) + 1]
            /\ result.val.rs2 = Register[Field(word, 24, 20) + 1]
            /\ Field(result.val.imm, 11, 0)
                   = Field(word, 31, 25) * 32 + Field(word, 11, 7)
            /\ \A i \in 12..15 : (i \in result.val.imm) <=> (31 \in word)

BranchName(f3) ==
    CASE f3 = 0 -> "BEQ" [] f3 = 1 -> "BNE" [] f3 = 4 -> "BLT"
      [] f3 = 5 -> "BGE" [] f3 = 6 -> "BLTU" [] f3 = 7 -> "BGEU"

\* the B-format offset of a word, as the instruction format defines it
BranchOffset(w) ==
    SignedOf(BitAt(w, 31) * 4096 + Field(w, 30, 25) * 32
                 + Field(w, 11, 8) * 2 + BitAt(w, 7) * 2048, 13)

\* C7: the immediate of a branch (funct3 in {000, 001, 100, 101, 110, 111})
\* is the 13-bit B-format value sign-extended; it is always even, and it is
\* -4096 when bit 31 is the only immediate-contributing bit set.
C7_BranchImm ==
    LET f3 == Field(word, 14, 12)
    IN  (Called /\ Field(word, 6, 0) = 99 /\ f3 \in {0, 1, 4, 5, 6, 7}) =>
            /\ Returned(BranchName(f3))
            /\ ToSigned(result.val.imm, 32) = BranchOffset(word)
            /\ 0 \notin result.val.imm
            /\ (word \cap ({31} \cup (25..30) \cup (7..11)) = {31}) =>
                   ToSigned(result.val.imm, 32) = -4096

\* C7 witness: a branch with only the sign bit of its offset set decoded
\* to the offset -4096.
C7_Witness ==
    /\ Returned("BEQ")
    /\ word \cap ({31} \cup (25..30) \cup (7..11)) = {31}
    /\ ToSigned(result.val.imm, 32) = -4096

\* the J-format offset of a word, as the instruction format defines it
JalOffset(w) ==
    SignedOf(BitAt(w, 31) * 1048576 + Field(w, 30, 21) * 2
                 + BitAt(w, 20) * 2048 + Field(w, 19, 12) * 4096, 21)

\* C8: a word with the JAL opcode decodes to JAL with rd = bits 11:7 and the
\* 21-bit J-format offset sign-extended; bit 0 of it is 0, and it is
\* -(1 << 20) when bit 31 is the only immediate-contributing bit set.
C8_JalImm ==
    (Called /\ Field(word, 6, 0) = 111) =>
        /\ Returned("JAL")
        /\ result.val.rd = Register[Field(word, 11, 7) + 1]
        /\ ToSigned(result.val.imm, 32) = JalOffset(word)
        /\ 0 \notin result.val.imm
        /\ (word \cap (12..31) = {31}) => ToSigned(result.val.imm, 32) = -1048576

\* C8 witness: a JAL with only the sign bit of its offset set decoded to
\* the offset -(1 << 20), with a destination other than x0.
C8_Witness ==
    /\ Returned("JAL")
    /\ Field(word, 6, 0) = 111
    /\ word \cap (12..31) = {31}
    /\ result.val.rd # "ZERO"
    /\ ToSigned(result.val.imm, 32) = -1048576

SystemName(f3) ==
    CASE f3 = 1 -> "CSRRW" [] f3 = 2 -> "CSRRS" [] f3 = 3 -> "CSRRC"
      [] f3 = 5 -> "CSRRWI" [] f3 = 6 -> "CSRRSI" [] f3 = 7 -> "CSRRCI"

\* C10: a SYSTEM word decodes to MRET exactly when the whole word is
\* 0x30200073 (whose funct3 bits are 000); every other SYSTEM word is
\* decided by funct3 alone among CSRRW, CSRRS, CSRRC, CSRRWI, CSRRSI and
\* CSRRCI, the immediate forms carrying zimm = bits 19:15.
C10_MretExact ==
    LET f3 == Field(word, 14, 12)
        isMret == word = {0, 1, 4, 5, 6, 21, 28, 29}
    IN  (Called /\ Field(word, 6, 0) = 115) =>
            /\ Returned("MRET") <=> isMret
            /\ isMret => (result = Ok([op |-> "MRET"]) /\ f3 = 0)
            /\ (~isMret /\ f3 \in {1, 2, 3, 5, 6, 7}) => Returned(SystemName(f3))
            /\ (~isMret /\ f3 \in {5, 6, 7}) =>
                   ToNat(result.val.zimm) = Field(word, 19, 15)
            /\ result.tag = "Ok" => result.val.op \in CsrOps \cup {"MRET"}

\* C10 witness: the MRET word was decoded to MRET.
C10_Witness == word = FromNat(MRET_WORD) /\ Returned("MRET")

\* the mnemonic the R format gives (funct3, funct7), "" when there is none
OpName(f3, f7) ==
    CASE f7 = 0 -> <<"ADD", "SLL", "SLT", "SLTU", "XOR", "SRL", "OR", "AND">>[f3 + 1]
      [] f7 = 32 /\ f3 = 0 -> "SUB"
      [] f7 = 32 /\ f3 = 5 -> "SRA"
      [] OTHER -> ""

\* C11: an OP word is decided by (funct3, funct7) and its three register
\* fields alone: funct7 = 0000000 selects ADD, SLL, SLT, SLTU, XOR, SRL, OR,
\* AND for funct3 = 000..111, funct7 = 0100000 selects SUB (000) and SRA
\* (101), every other pair returns the invalid-funct7 error naming funct7;
\* an OP-IMM word with funct3 = 101 gives SRLI (0000000), SRAI (0100000) or
\* the invalid-funct7 error, with shamt = bits 24:20.
C11_Funct7Dispatch ==
    LET oc == Field(word, 6, 0)
        f3 == Field(word, 14, 12)
        f7 == Field(word, 31, 25)
        rd == Register[Field(word, 11, 7) + 1]
        rs1 == Register[Field(word, 19, 15) + 1]
        rs2 == Register[Field(word, 24, 20) + 1]
        invalid == /\ IsErr("Invalid funct7 ")
                   /\ DigitsValue(result.msg.digits) = f7
    IN  /\ (Called /\ oc = 51) =>
               IF OpName(f3, f7) # ""
               THEN result = Ok([op |-> OpName(f3, f7), rs1 |-> rs1, rs2 |-> rs2,
                                 rd |-> rd])
               ELSE invalid
        /\ (Called /\ oc = 19 /\ f3 = 5) =>
               IF f7 \in {0, 32}
               THEN /\ result.tag = "Ok"
                    /\ result.val.op = (IF f7 = 0 THEN "SRLI" ELSE "SRAI")
                    /\ result.val.rd = rd
                    /\ result.val.rs1 = rs1
                    /\ ToNat(result.val.shamt) = Field(word, 24, 20)
                    /\ ToNat(result.val.shamt) \in 0..31
                    /\ DOMAIN result.val = {"op", "shamt", "rs1", "rd"}
               ELSE invalid

\* C11 witness: an OP word with funct7 = 0100000 and funct3 = 101 decoded to
\* SRA with three registers other than x0.
C11_Witness ==
    /\ Returned("SRA")
    /\ Field(word, 6, 0) = 51
    /\ Field(word, 31, 25) = 32
    /\ result.val.rs2 # "ZERO"
    /\ result.val.rd # "ZERO"

\* C12: Register::try_from succeeds exactly for the bytes 0..31 and fails
\* with the invalid-register error for 32..255; the register returned for
\* i in 0..31 has index i, so resolution is injective on 0..31.
C12_RegisterRoundTrip ==
    pc = "try_from_done" =>
        /\ result.tag = "Ok" <=> byte \in 0..31
        /\ byte \in 32..255 =>
               result = Err([text |-> "Invalid register", digits |-> <<>>])
        /\ byte \in 0..31 => to_index(result.val) = byte

\* C12 witness: byte 17 was resolved to the register A7.
C12_Witness == pc = "try_from_done" /\ byte = 17 /\ result = Ok("A7")

\* C13: register_list_from_bit_array returns exactly the registers whose
\* index is a set bit of the mask, each once, in strictly ascending index
\* order: the length is the number of set bits, the empty mask gives the
\* empty sequence, and no mask (bits 16..31 included) makes it fail.
C13_RegisterList ==
    /\ pc # "aborted"
    /\ pc = "list_done" =>
           /\ Len(ret) = Cardinality(bit_array)
           /\ {to_index(ret[k]) : k \in 1..Len(ret)} = bit_array
           /\ \A k \in 1..(Len(ret) - 1) : to_index(ret[k]) < to_index(ret[k + 1])
           /\ bit_array = {} => ret = <<>>
           /\ bit_array = 0..31 => ret = Register

\* C13 witness: a mask with bits above 15 set was listed up to T6.
C13_Witness ==
    /\ pc = "list_done"
    /\ {16, 31} \subseteq bit_array
    /\ Len(ret) >= 3
    /\ ret[Len(ret)] = "T6"

\* C14: a BRANCH word with funct3 = 010 decodes to JAL and one with
\* funct3 = 011 to JALR, next to the six branches; the re-routed JAL / JALR
\* take rd from bits 11:7, rs1 from bits 19:15 and the B-format immediate,
\* and no BRANCH word returns the invalid-funct3 error.
C14_BranchReroute ==
    LET f3 == Field(word, 14, 12)
        rd == Register[Field(word, 11, 7) + 1]
        rs1 == Register[Field(word, 19, 15) + 1]
    IN  (Called /\ Field(word, 6, 0) = 99) =>
            /\ f3 = 2 =>
                   /\ result.tag = "Ok"
                   /\ result.val.op = "JAL"
                   /\ result.val.rd = rd
                   /\ ToSigned(result.val.imm, 32) = BranchOffset(word)
                   /\ DOMAIN result.val = {"op", "rd", "imm"}
            /\ f3 = 3 =>
                   /\ result.tag = "Ok"
                   /\ result.val.op = "JALR"
                   /\ result.val.rd = rd
                   /\ result.val.rs1 = rs1
                   /\ ToSigned(result.val.imm, 32) = BranchOffset(word)
            /\ f3 \in {0, 1, 4, 5, 6, 7} => Returned(BranchName(f3))
            /\ ~IsErr("Invalid funct3 ")
            /\ pc = "returned" /\ result.tag = "Ok"

\* C14 witness: a BRANCH word with funct3 = 011 decoded to JALR with a
\* destination other than x0.
C14_Witness ==
    /\ Returned("JALR")
    /\ Field(word, 6, 0) = 99
    /\ Field(word, 14, 12) = 3
    /\ result.val.rd # "ZERO"

====
